---- MODULE Spec2Model ----
(***************************************************************************)
(* A model of scripts/cleanup_html.py: the tolerant tree builder           *)
(* (DOMBuilder), the tree queries, the rewrite passes, the serializer and  *)
(* the driver process_file.                                                *)
(*                                                                         *)
(* Representation.  The Node objects live in an arena `nodes`, a sequence  *)
(* of records; a node's identity (Python's `is`) is its index.  Index 1 is *)
(* DOMBuilder.root.  A Python str is a sequence of characters, each        *)
(* character a one-character TLA+ string; Python's None is `None` for a    *)
(* tag, 0 for a parent and the empty sequence for a text (the code reads   *)
(* a text only through `text or ""`).                                      *)
(***************************************************************************)
EXTENDS Integers, Sequences, FiniteSets, TLC

VARIABLES
    nodes,      \* the arena of Node objects; nodes[1] is the root
    stack,      \* DOMBuilder.stack: indices of the open elements
    stats,      \* process_file's stats counters
    pc,         \* where process_file stands
    out,        \* the text render_document returned (a sequence of tokens)
    calls,      \* the rewrite passes this run has called so far, in call order
    file,       \* the text of the file as the previous run wrote it
    run,        \* 1: the file as found; 2: the file the first run wrote
    alphabet    \* the input vocabulary of this run: the events the parser may emit

vars == <<nodes, stack, stats, pc, out, calls, file, run, alphabet>>

(***************************************************************************)
(* Strings                                                                 *)
(***************************************************************************)
None == "None"

Whitespace == {" ", "\t", "\n", "\r"}

RECURSIVE lstrip(_)
lstrip(s) ==
    IF s = <<>> THEN s
    ELSE IF Head(s) \in Whitespace THEN lstrip(Tail(s)) ELSE s

RECURSIVE rstrip(_)
rstrip(s) ==
    IF s = <<>> THEN s
    ELSE IF s[Len(s)] \in Whitespace THEN rstrip(SubSeq(s, 1, Len(s) - 1)) ELSE s

strip(s) == rstrip(lstrip(s))

\* str.replace(old, new) for a one-character old; new is a string
RECURSIVE replace(_, _, _)
replace(s, old, new) ==
    IF s = <<>> THEN <<>>
    ELSE (IF Head(s) = old THEN new ELSE <<Head(s)>>) \o replace(Tail(s), old, new)

contains(s, c) == \E i \in 1..Len(s) : s[i] = c

\* "".join(parts)
RECURSIVE join(_)
join(parts) == IF parts = <<>> THEN <<>> ELSE Head(parts) \o join(Tail(parts))

(***************************************************************************)
(* Node                                                                    *)
(***************************************************************************)
VOID_ELEMENTS ==
    {"area", "base", "br", "col", "embed", "hr", "img", "input", "link",
     "meta", "param", "source", "track", "wbr"}

PRESERVE_WHITESPACE_TAGS == {"pre", "code", "textarea", "script", "style"}

FOOTER_CANDIDATE_TAGS ==
    {"p", "div", "section", "span", "small", "footer", "aside", "blockquote",
     "ul", "ol", "li"}

Root == 1

\* Node.__init__: no children, no parent
Node(tag, attrs, text, is_doctype, is_comment) ==
    [tag |-> tag, attrs |-> attrs, children |-> <<>>, text |-> text,
     parent |-> 0, is_doctype |-> is_doctype, is_comment |-> is_comment]

\* Node.append: self = p, node = c
append(ns, p, c) ==
    LET ns1 == [ns EXCEPT ![c].parent = p]
    IN  [ns1 EXCEPT ![p].children = Append(ns1[p].children, c)]

\* the first index of c in kids, 0 when absent
RECURSIVE indexOf(_, _, _)
indexOf(kids, c, i) ==
    IF i > Len(kids) THEN 0
    ELSE IF kids[i] = c THEN i ELSE indexOf(kids, c, i + 1)

delAt(kids, i) == SubSeq(kids, 1, i - 1) \o SubSeq(kids, i + 1, Len(kids))

\* Node.remove: self = p, node = c
remove(ns, p, c) ==
    LET i == indexOf(ns[p].children, c, 1)
    IN  IF i = 0 THEN ns
        ELSE LET ns1 == [ns EXCEPT ![p].children = delAt(ns[p].children, i)]
             IN  [ns1 EXCEPT ![c].parent = 0]

(***************************************************************************)
(* DOMBuilder                                                              *)
(***************************************************************************)
\* {name: value or "" for name, value in attrs}: a later pair of the same
\* name overwrites the value and keeps the first pair's place
RECURSIVE dictOf(_, _)
dictOf(pairs, acc) ==
    IF pairs = <<>> THEN acc
    ELSE LET k == Head(pairs)[1]
             v == Head(pairs)[2]
             hit == {i \in 1..Len(acc) : acc[i][1] = k}
         IN  dictOf(Tail(pairs),
                    IF hit = {} THEN Append(acc, <<k, v>>)
                    ELSE [i \in 1..Len(acc) |->
                            IF i \in hit THEN <<k, v>> ELSE acc[i]])

top(b) == b.stack[Len(b.stack)]

\* DOMBuilder.__init__
DOMBuilder ==
    [nodes |-> <<Node("root", <<>>, <<>>, FALSE, FALSE)>>, stack |-> <<Root>>]

\* handle_starttag without the test `tag not in VOID_ELEMENTS`
handle_starttag_push_void(b, tag, attrs) ==
    LET id == Len(b.nodes) + 1
    IN  [nodes |-> append(Append(b.nodes, Node(tag, dictOf(attrs, <<>>), <<>>, FALSE, FALSE)),
                          top(b), id),
         stack |-> Append(b.stack, id)]

handle_starttag(b, tag, attrs) ==
    LET id == Len(b.nodes) + 1
        ns == append(Append(b.nodes, Node(tag, dictOf(attrs, <<>>), <<>>, FALSE, FALSE)),
                     top(b), id)
    IN  [nodes |-> ns,
         stack |-> IF tag \notin VOID_ELEMENTS THEN Append(b.stack, id) ELSE b.stack]

\* a builder that leaves a self-closing element open
handle_startendtag_push(b, tag, attrs) ==
    LET id == Len(b.nodes) + 1
    IN  [nodes |-> append(Append(b.nodes, Node(tag, dictOf(attrs, <<>>), <<>>, FALSE, FALSE)),
                          top(b), id),
         stack |-> Append(b.stack, id)]

handle_startendtag(b, tag, attrs) ==
    LET id == Len(b.nodes) + 1
    IN  [nodes |-> append(Append(b.nodes, Node(tag, dictOf(attrs, <<>>), <<>>, FALSE, FALSE)),
                          top(b), id),
         stack |-> b.stack]

\* a builder that closes an element only when it is the innermost open one
handle_endtag_top_only(b, tag) ==
    IF Len(b.stack) >= 2 /\ b.nodes[top(b)].tag = tag
    THEN [b EXCEPT !.stack = SubSeq(b.stack, 1, Len(b.stack) - 1)]
    ELSE b

\* the loop of handle_endtag: index runs from len(stack) - 1 down to 1
\* (0-based), that is from Len(stack) down to 2 here
RECURSIVE endtag_scan(_, _, _)
endtag_scan(b, tag, index) ==
    IF index < 2 THEN b
    ELSE IF b.nodes[b.stack[index]].tag = tag
         THEN [b EXCEPT !.stack = SubSeq(b.stack, 1, index - 1)]
         ELSE endtag_scan(b, tag, index - 1)

handle_endtag(b, tag) == endtag_scan(b, tag, Len(b.stack))

handle_data(b, data) ==
    IF data # <<>>
    THEN [b EXCEPT !.nodes = append(Append(b.nodes, Node(None, <<>>, data, FALSE, FALSE)),
                                    top(b), Len(b.nodes) + 1)]
    ELSE b

handle_comment(b, data) ==
    [b EXCEPT !.nodes = append(Append(b.nodes, Node(None, <<>>, data, FALSE, TRUE)),
                               top(b), Len(b.nodes) + 1)]

handle_decl(b, decl) ==
    [b EXCEPT !.nodes = append(Append(b.nodes, Node(None, <<>>, decl, TRUE, FALSE)),
                               top(b), Len(b.nodes) + 1)]

(***************************************************************************)
(* Tree queries                                                            *)
(***************************************************************************)
\* list(iter_tags(node, *names)): the elements below node in pre-order,
\* filtered by names when names is not empty
RECURSIVE iter_tags(_, _, _), iter_children(_, _, _, _)
iter_children(ns, kids, i, names) ==
    IF i > Len(kids) THEN <<>>
    ELSE LET child == kids[i]
         IN  (IF ns[child].tag # None
              THEN (IF names = {} \/ ns[child].tag \in names THEN <<child>> ELSE <<>>)
                   \o iter_tags(ns, child, names)
              ELSE <<>>)
             \o iter_children(ns, kids, i + 1, names)

iter_tags(ns, node, names) == iter_children(ns, ns[node].children, 1, names)

RECURSIVE get_text(_, _)
get_text(ns, node) ==
    IF ns[node].tag = None THEN ns[node].text
    ELSE IF ns[node].is_comment \/ ns[node].is_doctype THEN <<>>
    ELSE join([i \in 1..Len(ns[node].children) |-> get_text(ns, ns[node].children[i])])

is_whitespace_node(ns, node) ==
    ns[node].tag = None /\ strip(ns[node].text) = <<>>

\* unwrap with parent.children.extend(node.children) for the slice assignment
unwrap_at_end(ns, node) ==
    LET parent == ns[node].parent
    IN  IF parent = 0 THEN ns
        ELSE LET index == indexOf(ns[parent].children, node, 1)
                 kids == ns[node].children
                 moved == {kids[i] : i \in 1..Len(kids)}
                 ns1 == [ns EXCEPT ![parent].children = delAt(@, index)]
                 ns2 == [i \in 1..Len(ns1) |->
                            IF i \in moved THEN [ns1[i] EXCEPT !.parent = parent]
                            ELSE ns1[i]]
                 ns3 == [ns2 EXCEPT ![parent].children = @ \o kids]
             IN  [ns3 EXCEPT ![node].children = <<>>, ![node].parent = 0]

unwrap(ns, node) ==
    LET parent == ns[node].parent
    IN  IF parent = 0 THEN ns
        ELSE LET index == indexOf(ns[parent].children, node, 1)
                 kids == ns[node].children
                 moved == {kids[i] : i \in 1..Len(kids)}
                 ns1 == [ns EXCEPT ![parent].children = delAt(@, index)]
                 ns2 == [i \in 1..Len(ns1) |->
                            IF i \in moved THEN [ns1[i] EXCEPT !.parent = parent]
                            ELSE ns1[i]]
                 ns3 == [ns2 EXCEPT ![parent].children =
                            SubSeq(@, 1, index - 1) \o kids \o SubSeq(@, index, Len(@))]
             IN  [ns3 EXCEPT ![node].children = <<>>, ![node].parent = 0]

remove_node(ns, node) ==
    LET parent == ns[node].parent
    IN  IF parent = 0 THEN ns ELSE remove(ns, parent, node)

meaningful_children(ns, node) ==
    LET keep(child) ==
            /\ ~(ns[child].is_comment \/ ns[child].is_doctype)
            /\ ~(ns[child].tag = None /\ strip(ns[child].text) = <<>>)
    IN  SelectSeq(ns[node].children, keep)

RECURSIVE find_ancestor_from(_, _, _)
find_ancestor_from(ns, current, names) ==
    IF current = 0 THEN 0
    ELSE IF ns[current].tag \in names THEN current
    ELSE find_ancestor_from(ns, ns[current].parent, names)

\* 0 stands for None
find_ancestor(ns, node, names) == find_ancestor_from(ns, ns[node].parent, names)

RECURSIVE is_descendant_from(_, _, _)
is_descendant_from(ns, current, potential_ancestor) ==
    IF current = 0 THEN FALSE
    ELSE IF current = potential_ancestor THEN TRUE
    ELSE is_descendant_from(ns, ns[current].parent, potential_ancestor)

is_descendant(ns, node, potential_ancestor) ==
    is_descendant_from(ns, ns[node].parent, potential_ancestor)

(***************************************************************************)
(* Rewrite passes.  A pass takes and returns d = [nodes, stats].           *)
(***************************************************************************)
StatKeys ==
    {"div_unwrapped", "empty_headings_removed", "empty_italics_removed",
     "alt_added", "headings_adjusted", "footer_elements_moved"}

\* defaultdict(int)
NoStats == [k \in StatKeys |-> 0]

inc(d, key) == [d EXCEPT !.stats[key] = @ + 1]

RECURSIVE clean_whitespace(_, _, _), clean_children(_, _, _, _)
clean_children(ns, kids, i, preserve) ==
    IF i > Len(kids) THEN ns
    ELSE LET child == kids[i]
         IN  IF ns[child].tag = None
             THEN IF preserve THEN clean_children(ns, kids, i + 1, preserve)
                  ELSE LET t0 == ns[child].text
                           t1 == IF contains(t0, "\r") THEN replace(t0, "\r", <<>>) ELSE t0
                           t2 == IF contains(t1, "\t") THEN replace(t1, "\t", <<" ">>) ELSE t1
                           ns1 == [ns EXCEPT ![child].text = t2]
                           parent == ns1[child].parent
                       IN  IF strip(t2) = <<>>
                           THEN clean_children(
                                    IF parent # 0
                                    THEN [ns1 EXCEPT ![parent].children =
                                             delAt(@, indexOf(@, child, 1))]
                                    ELSE ns1,
                                    kids, i + 1, preserve)
                           ELSE clean_children(clean_whitespace(ns1, child, preserve),
                                               kids, i + 1, preserve)
             ELSE clean_children(clean_whitespace(ns, child, preserve),
                                 kids, i + 1, preserve)

clean_whitespace(ns, node, preserve) ==
    clean_children(ns, ns[node].children, 1,
                   preserve \/ (IF ns[node].tag # None
                                THEN ns[node].tag \in PRESERVE_WHITESPACE_TAGS
                                ELSE FALSE))

\* the two tests of the for loop in remove_redundant_wrappers
\* the test of the loop body without its second rule, div inside div
redundant_section_only(ns, div) ==
    /\ ns[div].attrs = <<>>
    /\ LET children == meaningful_children(ns, div)
       IN  /\ Len(children) = 1
           /\ LET child == children[1]
                  kids == ns[div].children
              IN  /\ ns[child].tag \in {"section", "main"}
                  /\ ~\E i \in 1..Len(kids) :
                         ns[kids[i]].tag = None /\ strip(ns[kids[i]].text) # <<>>

redundant(ns, div) ==
    /\ ns[div].attrs = <<>>
    /\ LET children == meaningful_children(ns, div)
       IN  /\ Len(children) = 1
           /\ LET child == children[1]
                  kids == ns[div].children
              IN  \/ /\ ns[child].tag \in {"section", "main"}
                     /\ ~\E i \in 1..Len(kids) :
                            ns[kids[i]].tag = None /\ strip(ns[kids[i]].text) # <<>>
                  \/ ns[child].tag = "div" /\ ns[child].attrs = <<>>

\* the for loop: the first div it unwraps, 0 when it runs to its end
RECURSIVE first_redundant(_, _, _)
first_redundant(ns, divs, i) ==
    IF i > Len(divs) THEN 0
    ELSE IF redundant(ns, divs[i]) THEN divs[i]
    ELSE first_redundant(ns, divs, i + 1)

\* one round of the while loop only: at most one div is unwrapped
remove_redundant_wrappers_once(d) ==
    LET div == first_redundant(d.nodes, iter_tags(d.nodes, Root, {"div"}), 1)
    IN  IF div = 0 THEN d
        ELSE inc([d EXCEPT !.nodes = unwrap(d.nodes, div)], "div_unwrapped")

RECURSIVE remove_redundant_wrappers(_)
remove_redundant_wrappers(d) ==
    LET div == first_redundant(d.nodes, iter_tags(d.nodes, Root, {"div"}), 1)
    IN  IF div = 0 THEN d
        ELSE remove_redundant_wrappers(
                 inc([d EXCEPT !.nodes = unwrap(d.nodes, div)], "div_unwrapped"))

RECURSIVE empty_headings_loop(_, _, _)
empty_headings_loop(d, headings, i) ==
    IF i > Len(headings) THEN d
    ELSE empty_headings_loop(
             IF strip(get_text(d.nodes, headings[i])) = <<>>
             THEN inc([d EXCEPT !.nodes = remove_node(d.nodes, headings[i])],
                      "empty_headings_removed")
             ELSE d,
             headings, i + 1)

remove_empty_headings(d) ==
    empty_headings_loop(d, iter_tags(d.nodes, Root, {"h1", "h2"}), 1)

RECURSIVE empty_italics_loop(_, _, _)
empty_italics_loop(d, italics, i) ==
    IF i > Len(italics) THEN d
    ELSE LET italic == italics[i]
             kids == d.nodes[italic].children
         IN  empty_italics_loop(
                 IF \/ d.nodes[italic].attrs # <<>>
                    \/ strip(get_text(d.nodes, italic)) # <<>>
                    \/ \E k \in 1..Len(kids) : d.nodes[kids[k]].tag # None
                 THEN d
                 ELSE inc([d EXCEPT !.nodes = remove_node(d.nodes, italic)],
                          "empty_italics_removed"),
                 italics, i + 1)

remove_empty_italics(d) ==
    empty_italics_loop(d, iter_tags(d.nodes, Root, {"i"}), 1)

\* "Image description"
ALT_TEXT ==
    <<"I", "m", "a", "g", "e", " ", "d", "e", "s", "c", "r", "i", "p", "t", "i", "o", "n">>

\* dict.get(key), None as <<>>: the code tests the value only by `not alt`
dict_get(attrs, key) ==
    LET hit == {i \in 1..Len(attrs) : attrs[i][1] = key}
    IN  IF hit = {} THEN <<>> ELSE attrs[CHOOSE i \in hit : TRUE][2]

\* attrs[key] = value
dict_set(attrs, key, value) ==
    IF \E i \in 1..Len(attrs) : attrs[i][1] = key
    THEN [i \in 1..Len(attrs) |-> IF attrs[i][1] = key THEN <<key, value>> ELSE attrs[i]]
    ELSE Append(attrs, <<key, value>>)

RECURSIVE alt_loop(_, _, _)
alt_loop(d, images, i) ==
    IF i > Len(images) THEN d
    ELSE LET alt == dict_get(d.nodes[images[i]].attrs, "alt")
         IN  alt_loop(
                 IF alt = <<>> \/ strip(alt) = <<>>
                 THEN inc([d EXCEPT !.nodes[images[i]].attrs = dict_set(@, "alt", ALT_TEXT)],
                          "alt_added")
                 ELSE d,
                 images, i + 1)

add_alt_text(d) == alt_loop(d, iter_tags(d.nodes, Root, {"img"}), 1)

HEADING_TAGS == {"h1", "h2", "h3", "h4", "h5", "h6"}

\* the headings with text, in document order
text_headings(ns) ==
    LET has_text(h) == strip(get_text(ns, h)) # <<>>
    IN  SelectSeq(iter_tags(ns, Root, HEADING_TAGS), has_text)

\* the loop of normalize_headings without the branch `heading.tag == "h1"`
RECURSIVE later_headings_keep_h1(_, _, _)
later_headings_keep_h1(d, headings, i) ==
    IF i > Len(headings) THEN d
    ELSE LET original == d.nodes[headings[i]].tag
             tag == IF original \in {"h4", "h5", "h6"} THEN "h3" ELSE original
             d1 == [d EXCEPT !.nodes[headings[i]].tag = tag]
         IN  later_headings_keep_h1(IF tag # original THEN inc(d1, "headings_adjusted") ELSE d1,
                                    headings, i + 1)

RECURSIVE later_headings_loop(_, _, _)
later_headings_loop(d, headings, i) ==
    IF i > Len(headings) THEN d
    ELSE LET original == d.nodes[headings[i]].tag
             tag == IF original = "h1" THEN "h2"
                    ELSE IF original \in {"h4", "h5", "h6"} THEN "h3"
                    ELSE original
             d1 == [d EXCEPT !.nodes[headings[i]].tag = tag]
         IN  later_headings_loop(IF tag # original THEN inc(d1, "headings_adjusted") ELSE d1,
                                 headings, i + 1)

normalize_headings(d) ==
    LET headings == text_headings(d.nodes)
    IN  IF headings = <<>> THEN d
        ELSE LET first == headings[1]
                 d1 == IF d.nodes[first].tag # "h1"
                       THEN inc([d EXCEPT !.nodes[first].tag = "h1"], "headings_adjusted")
                       ELSE d
             IN  later_headings_loop(d1, headings, 2)

(***************************************************************************)
(* Footer relocation                                                       *)
(***************************************************************************)
\* the character U+00A9, the copyright sign
COPYRIGHT == "(c)"

\* "creative commons"
CREATIVE_COMMONS ==
    <<"c", "r", "e", "a", "t", "i", "v", "e", " ", "c", "o", "m", "m", "o", "n", "s">>

UpperCase ==
    <<"A", "B", "C", "D", "E", "F", "G", "H", "I", "J", "K", "L", "M",
      "N", "O", "P", "Q", "R", "S", "T", "U", "V", "W", "X", "Y", "Z">>

LowerCase ==
    <<"a", "b", "c", "d", "e", "f", "g", "h", "i", "j", "k", "l", "m",
      "n", "o", "p", "q", "r", "s", "t", "u", "v", "w", "x", "y", "z">>

\* re.IGNORECASE on the letters of the pattern
lower(c) ==
    IF \E i \in 1..26 : UpperCase[i] = c
    THEN LowerCase[CHOOSE i \in 1..26 : UpperCase[i] = c]
    ELSE c

\* FOOTER_PATTERN.search(s) is not None
FOOTER_PATTERN(s) ==
    \/ contains(s, COPYRIGHT)
    \/ \E i \in 0..(Len(s) - Len(CREATIVE_COMMONS)) :
           \A j \in 1..Len(CREATIVE_COMMONS) : lower(s[i + j]) = CREATIVE_COMMONS[j]

FOOTER_MAX_LEN == 400

\* the tests of the first loop of move_footer_elements
footer_candidate(ns, tag) ==
    /\ ns[tag].tag \notin {"script", "style", "noscript"}
    /\ ns[tag].tag \in FOOTER_CANDIDATE_TAGS
    /\ FOOTER_PATTERN(get_text(ns, tag))
    /\ find_ancestor(ns, tag, {"footer"}) = 0
    /\ ~(Len(strip(get_text(ns, tag))) > FOOTER_MAX_LEN)

\* for child in list(body.children): body.remove(child); main.append(child)
RECURSIVE reparent_loop(_, _, _, _, _)
reparent_loop(ns, kids, i, body, main) ==
    IF i > Len(kids) THEN ns
    ELSE reparent_loop(append(remove(ns, body, kids[i]), main, kids[i]),
                       kids, i + 1, body, main)

\* the last loop of move_footer_elements with parent.append(node) for
\* footer.append(node)
RECURSIVE move_loop_reattach(_, _, _, _)
move_loop_reattach(d, footer, candidates, i) ==
    IF i > Len(candidates) THEN d
    ELSE LET node == candidates[i]
             parent == d.nodes[node].parent
         IN  move_loop_reattach(
                 IF parent = 0 THEN d
                 ELSE inc([d EXCEPT !.nodes = append(remove(d.nodes, parent, node),
                                                     parent, node)],
                          "footer_elements_moved"),
                 footer, candidates, i + 1)

\* the last loop of move_footer_elements
RECURSIVE move_loop(_, _, _, _)
move_loop(d, footer, candidates, i) ==
    IF i > Len(candidates) THEN d
    ELSE LET node == candidates[i]
             parent == d.nodes[node].parent
         IN  move_loop(
                 IF parent = 0 THEN d
                 ELSE inc([d EXCEPT !.nodes = append(remove(d.nodes, parent, node),
                                                     footer, node)],
                          "footer_elements_moved"),
                 footer, candidates, i + 1)

move_footer_elements(d) ==
    LET ns == d.nodes
        is_candidate(tag) == footer_candidate(ns, tag)
        found == SelectSeq(iter_tags(ns, Root, {}), is_candidate)
        outermost(node) ==
            ~\E k \in 1..Len(found) :
                found[k] # node /\ is_descendant(ns, node, found[k])
        candidates == SelectSeq(found, outermost)
        mains == iter_tags(ns, Root, {"main"})
        bodies == iter_tags(ns, Root, {"body"})
    IN  IF found = <<>> THEN d
        ELSE IF mains = <<>> /\ bodies = <<>> THEN d
        ELSE LET main == IF mains # <<>> THEN mains[1] ELSE Len(ns) + 1
                 ns1 == IF mains # <<>> THEN ns
                        ELSE LET body == bodies[1]
                                 made == Append(ns, Node("main", <<>>, <<>>, FALSE, FALSE))
                             IN  append(reparent_loop(made, ns[body].children, 1, body, main),
                                        body, main)
                 is_footer(child) == ns1[child].tag = "footer"
                 footers == SelectSeq(ns1[main].children, is_footer)
                 footer == IF footers # <<>> THEN footers[1] ELSE Len(ns1) + 1
                 ns2 == IF footers # <<>> THEN ns1
                        ELSE append(Append(ns1, Node("footer", <<>>, <<>>, FALSE, FALSE)),
                                    main, footer)
             IN  move_loop([d EXCEPT !.nodes = ns2], footer, candidates, 1)

ensure_matching_sections(d) == [d EXCEPT !.nodes = clean_whitespace(d.nodes, Root, FALSE)]

(***************************************************************************)
(* Serializer.  A text is a sequence of tokens: a character, or a piece of *)
(* markup (a start tag with its attributes, an end tag, a comment, a       *)
(* declaration) that the tokenizer reads back as one event.                *)
(***************************************************************************)
Ch(c) == [k |-> "ch", tag |-> c, attrs |-> <<>>, text |-> <<>>]

StartTok(tag, attrs) == [k |-> "start", tag |-> tag, attrs |-> attrs, text |-> <<>>]

EndTok(tag) == [k |-> "end", tag |-> tag, attrs |-> <<>>, text |-> <<>>]

CommentTok(text) == [k |-> "comment", tag |-> "", attrs |-> <<>>, text |-> text]

DeclTok(text) == [k |-> "decl", tag |-> "", attrs |-> <<>>, text |-> text]

chars(s) == [i \in 1..Len(s) |-> Ch(s[i])]

\* "  " * indent
indent_str(indent) == [i \in 1..(2 * indent) |-> Ch(" ")]

\* separator.join(parts)
RECURSIVE join_with(_, _)
join_with(separator, parts) ==
    IF parts = <<>> THEN <<>>
    ELSE IF Len(parts) = 1 THEN parts[1]
    ELSE parts[1] \o separator \o join_with(separator, Tail(parts))

AMP == <<"&", "a", "m", "p", ";">>
LT == <<"&", "l", "t", ";">>
GT == <<"&", "g", "t", ";">>
QUOT == <<"&", "q", "u", "o", "t", ";">>
APOS == <<"&", "#", "x", "2", "7", ";">>

\* html.escape(value, quote=True)
escape(value) ==
    replace(replace(replace(replace(replace(value, "&", AMP), "<", LT), ">", GT),
                    "\"", QUOT), "'", APOS)

starts_with(s, prefix) ==
    Len(s) >= Len(prefix) /\ SubSeq(s, 1, Len(prefix)) = prefix

\* the tokenizer's unescaping of an attribute value, on the references
\* html.escape writes
RECURSIVE unescape(_)
unescape(s) ==
    IF s = <<>> THEN <<>>
    ELSE IF starts_with(s, AMP) THEN <<"&">> \o unescape(SubSeq(s, 6, Len(s)))
    ELSE IF starts_with(s, LT) THEN <<"<">> \o unescape(SubSeq(s, 5, Len(s)))
    ELSE IF starts_with(s, GT) THEN <<">">> \o unescape(SubSeq(s, 5, Len(s)))
    ELSE IF starts_with(s, QUOT) THEN <<"\"">> \o unescape(SubSeq(s, 7, Len(s)))
    ELSE IF starts_with(s, APOS) THEN <<"'">> \o unescape(SubSeq(s, 7, Len(s)))
    ELSE <<Head(s)>> \o unescape(Tail(s))

\* the attributes as written in the start tag: name="escaped value"
render_attributes(attrs) ==
    [i \in 1..Len(attrs) |-> <<attrs[i][1], escape(attrs[i][2])>>]

RECURSIVE render_node(_, _, _, _)
render_node(ns, node, indent, preserve) ==
    LET n == ns[node]
    IN  IF n.is_doctype THEN <<DeclTok(n.text)>>
        ELSE IF n.is_comment THEN indent_str(indent) \o <<CommentTok(n.text)>>
        ELSE IF n.tag = None
             THEN IF preserve \/ strip(n.text) = <<>> THEN chars(n.text)
                  ELSE indent_str(indent) \o chars(strip(n.text))
        ELSE LET open == StartTok(n.tag, render_attributes(n.attrs))
                 preserve_children == preserve \/ n.tag \in PRESERVE_WHITESPACE_TAGS
                 rendered == [i \in 1..Len(n.children) |->
                                 render_node(ns, n.children[i], indent + 1, preserve_children)]
                 not_empty(r) == r # <<>>
                 child_strings == SelectSeq(rendered, not_empty)
             IN  IF n.tag \in VOID_ELEMENTS THEN indent_str(indent) \o <<open>>
                 ELSE IF child_strings = <<>>
                      THEN indent_str(indent) \o <<open, EndTok(n.tag)>>
                 ELSE IF preserve_children
                      THEN indent_str(indent) \o <<open>> \o join(child_strings)
                           \o <<EndTok(n.tag)>>
                 ELSE indent_str(indent) \o <<open, Ch("\n")>>
                      \o join_with(<<Ch("\n")>>, child_strings)
                      \o <<Ch("\n")>> \o indent_str(indent) \o <<EndTok(n.tag)>>

\* str.splitlines() on the line ends "\n", "\r" and "\r\n": the ends are
\* the positions of a "\n" and of a "\r" that no "\n" follows; a line runs
\* from the last end before it to the next, and no line follows a final end
splitlines(text) ==
    LET is_end(i) == \/ text[i] = Ch("\n")
                     \/ text[i] = Ch("\r") /\ ~(i < Len(text) /\ text[i + 1] = Ch("\n"))
        ends == {i \in 1..Len(text) : is_end(i)}
        stops == IF text = <<>> \/ Len(text) \in ends THEN ends ELSE ends \cup {Len(text) + 1}
        before(i) == {j \in ends : j < i}
        first(i) == IF before(i) = {} THEN 1
                    ELSE (CHOOSE j \in before(i) : \A m \in before(i) : m <= j) + 1
        last(i) == IF i <= Len(text) /\ text[i] = Ch("\n") /\ i > 1 /\ text[i - 1] = Ch("\r")
                   THEN i - 2 ELSE i - 1
        nth(k) == CHOOSE i \in stops : Cardinality({j \in stops : j < i}) = k - 1
    IN  [k \in 1..Cardinality(stops) |-> SubSeq(text, first(nth(k)), last(nth(k)))]

indent_block(text, level) ==
    LET lines == splitlines(text)
    IN  join_with(<<Ch("\n")>>,
                  [i \in 1..Len(lines) |->
                      IF lines[i] # <<>> THEN indent_str(level) \o lines[i] ELSE <<>>])

\* "DOCTYPE html"
DOCTYPE_HTML == <<"D", "O", "C", "T", "Y", "P", "E", " ", "h", "t", "m", "l">>

render_document(ns) ==
    LET kids == ns[Root].children
        is_doctype(child) == ns[child].is_doctype
        is_html(child) == ns[child].tag = "html"
        doctypes == SelectSeq(kids, is_doctype)
        htmls == SelectSeq(kids, is_html)
        first_part == IF doctypes # <<>> THEN render_node(ns, doctypes[1], 0, FALSE)
                      ELSE <<DeclTok(DOCTYPE_HTML)>>
        not_doctype(child) == doctypes = <<>> \/ child # doctypes[1]
        rendered == [i \in 1..Len(SelectSeq(kids, not_doctype)) |->
                        render_node(ns, SelectSeq(kids, not_doctype)[i], 0, FALSE)]
        not_empty(r) == r # <<>>
        content_parts == SelectSeq(rendered, not_empty)
        parts == IF htmls # <<>> THEN <<first_part, render_node(ns, htmls[1], 0, FALSE)>>
                 ELSE IF content_parts # <<>>
                      THEN <<first_part,
                             <<StartTok("html", <<>>)>>,
                             indent_str(1) \o <<StartTok("body", <<>>)>>,
                             indent_block(join_with(<<Ch("\n")>>, content_parts), 2),
                             indent_str(1) \o <<EndTok("body")>>,
                             <<EndTok("html")>>>>
                 ELSE <<first_part>>
    IN  join_with(<<Ch("\n")>>, parts) \o <<Ch("\n")>>

(***************************************************************************)
(* parse_html: HTMLParser.feed and close on a text.  A run of characters   *)
(* is one handle_data call; each piece of markup is one handler call.      *)
(***************************************************************************)
\* the characters up to the next piece of markup
text_run(content) ==
    LET stops == {i \in 1..Len(content) : content[i].k # "ch"}
        n == IF stops = {} THEN Len(content)
             ELSE (CHOOSE i \in stops : \A j \in stops : i <= j) - 1
    IN  [i \in 1..n |-> content[i].tag]

RECURSIVE feed(_, _)
feed(b, content) ==
    IF content = <<>> THEN b
    ELSE LET t == content[1]
         IN  IF t.k = "ch"
             THEN LET data == text_run(content)
                  IN  feed(handle_data(b, data), SubSeq(content, Len(data) + 1, Len(content)))
             ELSE feed(
                    IF t.k = "start"
                    THEN handle_starttag(b, t.tag,
                             [i \in 1..Len(t.attrs) |-> <<t.attrs[i][1], unescape(t.attrs[i][2])>>])
                    ELSE IF t.k = "end" THEN handle_endtag(b, t.tag)
                    ELSE IF t.k = "comment" THEN handle_comment(b, t.text)
                    ELSE handle_decl(b, t.text),
                    Tail(content))

parse_html(content) == feed(DOMBuilder, content).nodes

(***************************************************************************)
(* process_file                                                            *)
(***************************************************************************)
\* process_file with ensure_matching_sections called first
PIPELINE_whitespace_first ==
    <<"ensure_matching_sections", "remove_redundant_wrappers", "remove_empty_headings",
      "remove_empty_italics", "add_alt_text", "normalize_headings",
      "move_footer_elements">>

\* the calls of process_file between parse_html and render_document
PIPELINE ==
    <<"remove_redundant_wrappers", "remove_empty_headings", "remove_empty_italics",
      "add_alt_text", "normalize_headings", "move_footer_elements",
      "ensure_matching_sections">>

call(name, d) ==
    CASE name = "remove_redundant_wrappers" -> remove_redundant_wrappers(d)
      [] name = "remove_empty_headings" -> remove_empty_headings(d)
      [] name = "remove_empty_italics" -> remove_empty_italics(d)
      [] name = "add_alt_text" -> add_alt_text(d)
      [] name = "normalize_headings" -> normalize_headings(d)
      [] name = "move_footer_elements" -> move_footer_elements(d)
      [] name = "ensure_matching_sections" -> ensure_matching_sections(d)

RECURSIVE run_calls(_, _, _)
run_calls(names, i, d) ==
    IF i > Len(names) THEN d ELSE run_calls(names, i + 1, call(names[i], d))

\* the text process_file computes for a file whose content is `original`
process_text(original) ==
    render_document(
        run_calls(PIPELINE, 1, [nodes |-> parse_html(original), stats |-> NoStats]).nodes)

(***************************************************************************)
(* Inputs                                                                  *)
(***************************************************************************)
\* the parser events of one run create at most MaxNodes nodes
MaxNodes == 4

\* a specification that applies single passes applies at most MaxCalls
MaxCalls == 2

Str_a == <<"a">>
Str_Hi == <<"H", "i">>
Str_x == <<"x">>
Str_c == <<COPYRIGHT>>
Str_sp == <<" ">>
Str_tab == <<"a", "\t", "\r">>
\* a copyright line of FOOTER_MAX_LEN + 1 characters
Str_long == [i \in 1..FOOTER_MAX_LEN |-> "x"] \o <<COPYRIGHT>>

NoAttrs == <<>>
ClassAttr == <<<<"class", Str_x>>>>

\* the vocabulary of the run of process_file
FileAlphabet ==
    [starts |-> {<<"div", NoAttrs>>, <<"img", NoAttrs>>},
     texts |-> {Str_c},
     comments |-> {Str_x},
     decls |-> {DOCTYPE_HTML},
     passes |-> {}]

WrapperAlphabet ==
    [starts |-> {<<"div", NoAttrs>>, <<"div", ClassAttr>>, <<"section", NoAttrs>>,
                 <<"p", NoAttrs>>},
     texts |-> {Str_Hi, Str_sp},
     comments |-> {Str_x},
     decls |-> {},
     passes |-> {"remove_redundant_wrappers"}]

HeadingAlphabet ==
    [starts |-> {<<"h1", NoAttrs>>, <<"h2", NoAttrs>>, <<"h4", NoAttrs>>},
     texts |-> {Str_a, Str_sp},
     comments |-> {Str_x},
     decls |-> {},
     passes |-> {"normalize_headings"}]

FooterAlphabet ==
    [starts |-> {<<"body", NoAttrs>>, <<"main", NoAttrs>>, <<"footer", NoAttrs>>,
                 <<"p", NoAttrs>>},
     texts |-> {Str_c, Str_long},
     comments |-> {},
     decls |-> {},
     passes |-> {"move_footer_elements"}]

InlineAlphabet ==
    [starts |-> {<<"i", NoAttrs>>, <<"img", <<<<"alt", Str_sp>>>>>>, <<"h1", NoAttrs>>},
     texts |-> {Str_tab},
     comments |-> {},
     decls |-> {},
     passes |-> {"ensure_matching_sections", "remove_empty_headings",
                 "remove_empty_italics", "add_alt_text", "normalize_headings",
                 "move_footer_elements"}]

(***************************************************************************)
(* The state machine                                                       *)
(***************************************************************************)
builder == [nodes |-> nodes, stack |-> stack]

doc == [nodes |-> nodes, stats |-> stats]

Start(a) ==
    /\ nodes = DOMBuilder.nodes
    /\ stack = DOMBuilder.stack
    /\ stats = NoStats
    /\ pc = "parse"
    /\ out = <<>>
    /\ calls = <<>>
    /\ file = <<>>
    /\ run = 1
    /\ alphabet = a

Init == Start(FileAlphabet)

Built(b) ==
    /\ nodes' = b.nodes
    /\ stack' = b.stack
    /\ UNCHANGED <<stats, pc, out, calls, file, run, alphabet>>

CanCreate == pc = "parse" /\ Len(nodes) - 1 < MaxNodes

HandleStartTag ==
    \E e \in alphabet.starts :
        CanCreate /\ Built(handle_starttag(builder, e[1], e[2]))

HandleStartEndTag ==
    \E e \in alphabet.starts :
        CanCreate /\ Built(handle_startendtag(builder, e[1], e[2]))

HandleEndTag ==
    \E e \in alphabet.starts :
        pc = "parse" /\ Built(handle_endtag(builder, e[1]))

HandleData ==
    \E data \in alphabet.texts :
        CanCreate /\ Built(handle_data(builder, data))

HandleComment ==
    \E data \in alphabet.comments :
        CanCreate /\ Built(handle_comment(builder, data))

HandleDecl ==
    \E decl \in alphabet.decls :
        CanCreate /\ Built(handle_decl(builder, decl))

\* parser.close(); return parser.root: the builder and its stack are dropped
Close ==
    /\ pc = "parse"
    /\ pc' = "rewrite"
    /\ stack' = <<>>
    /\ UNCHANGED <<nodes, stats, out, calls, file, run, alphabet>>

Called(name) ==
    LET d == call(name, doc)
    IN  /\ nodes' = d.nodes
        /\ stats' = d.stats
        /\ calls' = Append(calls, name)
        /\ UNCHANGED <<stack, pc, out, file, run, alphabet>>

\* process_file is about to make its call number Len(calls) + 1
NextCall(name) ==
    /\ pc = "rewrite"
    /\ Len(calls) < Len(PIPELINE)
    /\ PIPELINE[Len(calls) + 1] = name

RemoveRedundantWrappers ==
    NextCall("remove_redundant_wrappers") /\ Called("remove_redundant_wrappers")

RemoveEmptyHeadings ==
    NextCall("remove_empty_headings") /\ Called("remove_empty_headings")

RemoveEmptyItalics ==
    NextCall("remove_empty_italics") /\ Called("remove_empty_italics")

AddAltText == NextCall("add_alt_text") /\ Called("add_alt_text")

NormalizeHeadings == NextCall("normalize_headings") /\ Called("normalize_headings")

MoveFooterElements == NextCall("move_footer_elements") /\ Called("move_footer_elements")

EnsureMatchingSections ==
    NextCall("ensure_matching_sections") /\ Called("ensure_matching_sections")

RenderDocument ==
    /\ pc = "rewrite"
    /\ Len(calls) = Len(PIPELINE)
    /\ out' = render_document(nodes)
    /\ pc' = "done"
    /\ UNCHANGED <<nodes, stack, stats, calls, file, run, alphabet>>

\* path.write_text(output), and process_file called again on that file:
\* original = path.read_text(); root = parse_html(original); stats = {}
ProcessAgain ==
    /\ pc = "done"
    /\ run = 1
    /\ file' = out
    /\ nodes' = parse_html(out)
    /\ stats' = NoStats
    /\ calls' = <<>>
    /\ out' = <<>>
    /\ pc' = "rewrite"
    /\ run' = 2
    /\ UNCHANGED <<stack, alphabet>>

ParseElements ==
    \/ HandleStartTag
    \/ HandleStartEndTag
    \/ HandleEndTag
    \/ HandleData
    \/ Close

Parse ==
    \/ ParseElements
    \/ HandleComment
    \/ HandleDecl

Next ==
    \/ Parse
    \/ RemoveRedundantWrappers
    \/ RemoveEmptyHeadings
    \/ RemoveEmptyItalics
    \/ AddAltText
    \/ NormalizeHeadings
    \/ MoveFooterElements
    \/ EnsureMatchingSections
    \/ RenderDocument
    \/ ProcessAgain

\* process_file on one file, and once more on the file it wrote
Spec == Init /\ [][Next]_vars

\* a pass called on the parsed tree, and called again
ApplyPass ==
    \E name \in alphabet.passes :
        /\ pc = "rewrite"
        /\ Len(calls) < MaxCalls
        /\ Called(name)

\* remove_redundant_wrappers on every tree of divs, sections, paragraphs,
\* texts and comments
NextWrappers == ParseElements \/ HandleComment \/ ApplyPass

SpecWrappers == Start(WrapperAlphabet) /\ [][NextWrappers]_vars

\* normalize_headings on every tree of headings, texts and comments
SpecHeadings == Start(HeadingAlphabet) /\ [][NextWrappers]_vars

\* move_footer_elements on every tree of body, main, footer, paragraphs
\* and copyright lines; any single pass, twice, on inline markup
NextElements == ParseElements \/ ApplyPass

SpecFooter == Start(FooterAlphabet) /\ [][NextElements]_vars

SpecInline == Start(InlineAlphabet) /\ [][NextElements]_vars

(***************************************************************************)
(* Properties                                                              *)
(***************************************************************************)
\* the tree below node as a value: two trees are the same tree when these
\* values are equal
RECURSIVE Subtree(_, _)
Subtree(ns, node) ==
    [tag |-> ns[node].tag, attrs |-> ns[node].attrs, text |-> ns[node].text,
     is_doctype |-> ns[node].is_doctype, is_comment |-> ns[node].is_comment,
     children |-> [i \in 1..Len(ns[node].children) |-> Subtree(ns, ns[node].children[i])]]

Tree(ns) == Subtree(ns, Root)

\* the nodes reachable from node, node included
RECURSIVE Below(_, _)
Below(ns, node) ==
    {node} \cup UNION {Below(ns, ns[node].children[i]) : i \in 1..Len(ns[node].children)}

Reachable(ns) == Below(ns, Root)

\* C1: the text the second run of process_file writes, on the file the
\* first run wrote, is the text of that file
C1_Idempotent == (pc = "done" /\ run = 2) => out = file


Last(seq) == seq[Len(seq)]

IsPrefix(a, b) == Len(a) <= Len(b) /\ SubSeq(b, 1, Len(a)) = a

\* this step is the call of pass `name`
Calls(name) == calls' = Append(calls, name)

\* C2, as claimed: whitespace normalization is called first and footer
\* relocation last
C2_WhitespaceFirst ==
    IsPrefix(calls,
             <<"ensure_matching_sections", "remove_redundant_wrappers",
               "remove_empty_headings", "remove_empty_italics", "add_alt_text",
               "normalize_headings", "move_footer_elements">>)

\* C2, amended: process_file calls the passes one after the other in the
\* order wrapper unwrapping, empty-heading removal, empty-italic removal,
\* alt-text injection, heading normalization, footer relocation, whitespace
\* normalization, and renders only after the last of them
C2_CallOrder ==
    /\ IsPrefix(calls,
                <<"remove_redundant_wrappers", "remove_empty_headings",
                  "remove_empty_italics", "add_alt_text", "normalize_headings",
                  "move_footer_elements", "ensure_matching_sections">>)
    /\ pc = "done" => Len(calls) = 7

\* a finished first run in which a pass changed the tree
C2_Witness ==
    /\ pc = "done"
    /\ run = 1
    /\ Len(calls) = 7
    /\ stats["div_unwrapped"] > 0

\* the copyright pattern matches the text of node, of at most
\* FOOTER_MAX_LEN characters once trimmed
ShortNotice(ns, node) ==
    /\ FOOTER_PATTERN(get_text(ns, node))
    /\ Len(strip(get_text(ns, node))) <= FOOTER_MAX_LEN

InFooter(ns, node) == find_ancestor(ns, node, {"footer"}) # 0

TopHeadings(ns) ==
    {node \in Reachable(ns) : ns[node].tag = "h1" /\ strip(get_text(ns, node)) # <<>>}

\* C4: once normalize_headings has run, at most one h1 of the tree has text
C4_SingleTopHeading ==
    (calls # <<>> /\ Last(calls) = "normalize_headings") =>
        Cardinality(TopHeadings(nodes)) <= 1

\* a second heading with text was retagged and one h1 with text is left
C4_Witness ==
    /\ calls = <<"normalize_headings">>
    /\ stats["headings_adjusted"] > 0
    /\ Len(text_headings(nodes)) >= 2
    /\ Cardinality(TopHeadings(nodes)) = 1
    /\ \E node \in Reachable(nodes) : nodes[node].tag = "h2"

\* C5: no void element has a child, while the tree is built and after
\* every pass
C5_VoidHasNoChildren ==
    \A node \in 1..Len(nodes) :
        nodes[node].tag \in VOID_ELEMENTS => nodes[node].children = <<>>

\* a void element in a tree a pass has changed, with nodes created after it
C5_Witness ==
    /\ calls # <<>>
    /\ stats # NoStats
    /\ \E node \in Reachable(nodes) :
           /\ nodes[node].tag \in VOID_ELEMENTS
           /\ node < Len(nodes)

\* the positions above the root of the open elements named tag
Matches(tag) == {index \in 2..Len(stack) : nodes[stack[index]].tag = tag}

Max(S) == CHOOSE x \in S : \A y \in S : y <= x

\* the end tags the parser may report: the tags of the vocabulary, the tag
\* of the root, and a tag no element has
EndTags == {e[1] : e \in alphabet.starts} \cup {"root", "span"}

\* C6: on an end tag the builder cuts the stack just below the open element
\* of that tag nearest the top, and leaves the stack as it is when no open
\* element above the root has the tag; the tree is unchanged either way
C6_EndTagPopsNearest ==
    pc = "parse" =>
        \A tag \in EndTags :
            handle_endtag(builder, tag) =
                [nodes |-> nodes,
                 stack |-> IF Matches(tag) = {} THEN stack
                           ELSE SubSeq(stack, 1, Max(Matches(tag)) - 1)]

OnStack(node) == \E index \in 1..Len(stack) : stack[index] = node

\* an element was closed with a child of its own, and two elements of
\* different tags are open, so that the end tag of the lower one pops both
C6_Witness ==
    /\ pc = "parse"
    /\ Len(stack) >= 3
    /\ nodes[stack[2]].tag # nodes[stack[Len(stack)]].tag
    /\ \E node \in Reachable(nodes) :
           /\ nodes[node].tag \notin VOID_ELEMENTS \cup {None, "root"}
           /\ ~OnStack(node)
           /\ nodes[node].children # <<>>

\* div is an attribute-less div whose only meaningful child is child
Wraps(ns, div, child) ==
    /\ ns[div].tag = "div"
    /\ ns[div].attrs = <<>>
    /\ meaningful_children(ns, div) = <<child>>

Wrapper(ns, div) == \E child \in 1..Len(ns) : Wraps(ns, div, child)

\* the chain of wrappers that starts at div: each is the only meaningful
\* child of the one before, and the last one holds something else
RECURSIVE Chain(_, _)
Chain(ns, div) ==
    LET child == meaningful_children(ns, div)[1]
    IN  IF Wrapper(ns, child) THEN <<div>> \o Chain(ns, child) ELSE <<div>>

\* the chain that starts at div is not part of a longer one, and ends in a p
ChainToParagraph(ns, div) ==
    /\ Wrapper(ns, div)
    /\ ~(ns[div].parent # 0 /\ Wraps(ns, ns[div].parent, div))
    /\ ns[meaningful_children(ns, Last(Chain(ns, div)))[1]].tag = "p"

\* C7, as claimed: remove_redundant_wrappers removes every div of a chain
\* of two or more wrappers that ends in a p, and the p becomes a child of
\* what contained the outer div
C7_ChainCollapsed ==
    [][Calls("remove_redundant_wrappers") =>
          \A div \in Reachable(nodes) :
              (ChainToParagraph(nodes, div) /\ Len(Chain(nodes, div)) >= 2) =>
                  LET chain == Chain(nodes, div)
                      p == meaningful_children(nodes, Last(chain))[1]
                  IN  /\ nodes'[p].parent = nodes[div].parent
                      /\ \A i \in 1..Len(chain) : chain[i] \notin Reachable(nodes')]_vars

\* C7, amended: remove_redundant_wrappers removes every div of such a chain
\* but the innermost; the innermost div keeps its children, the p among
\* them, and becomes a child of what contained the outer div
C7_ChainKeepsInnermost ==
    [][Calls("remove_redundant_wrappers") =>
          \A div \in Reachable(nodes) :
              ChainToParagraph(nodes, div) =>
                  LET chain == Chain(nodes, div)
                      inner == Last(chain)
                      p == meaningful_children(nodes, inner)[1]
                  IN  /\ nodes'[p].parent = inner
                      /\ nodes'[inner].children = nodes[inner].children
                      /\ nodes'[inner].parent = nodes[div].parent
                      /\ inner \in Reachable(nodes')
                      /\ \A i \in 1..(Len(chain) - 1) :
                             /\ chain[i] \notin Reachable(nodes')
                             /\ nodes'[chain[i]].parent = 0
                      /\ stats'["div_unwrapped"] >= stats["div_unwrapped"] + Len(chain) - 1]_vars

\* <div><div><p>Hi</p></div></div> after the pass: one div was unwrapped,
\* and one div is left at the top with the p inside
C7_Witness ==
    /\ calls = <<"remove_redundant_wrappers">>
    /\ stats["div_unwrapped"] = 1
    /\ Len(nodes) = 5
    /\ nodes[Root].children = <<3>>
    /\ nodes[2].tag = "div" /\ nodes[2].parent = 0
    /\ nodes[3].tag = "div" /\ nodes[3].children = <<4>>
    /\ nodes[4].tag = "p" /\ nodes[4].children = <<5>>
    /\ nodes[5].text = Str_Hi

\* C8: remove_redundant_wrappers called on a tree that its previous call
\* left changes neither the tree nor the counters
C8_WrapperFixpoint ==
    [][(calls # <<>> /\ Last(calls) = "remove_redundant_wrappers"
        /\ Calls("remove_redundant_wrappers")) =>
          (nodes' = nodes /\ stats' = stats)]_vars

\* the second call returned, after a first call that unwrapped two divs
C8_Witness ==
    /\ calls = <<"remove_redundant_wrappers", "remove_redundant_wrappers">>
    /\ stats["div_unwrapped"] >= 2

\* C9, as claimed: each pass but the unwrapping, called right after itself,
\* leaves the tree it finds
C9_PassIdempotent ==
    [][\A name \in {"ensure_matching_sections", "remove_empty_headings",
                    "remove_empty_italics", "add_alt_text", "normalize_headings",
                    "move_footer_elements"} :
           (calls # <<>> /\ Last(calls) = name /\ Calls(name)) =>
               Tree(nodes') = Tree(nodes)]_vars

\* the contents of the Text nodes at or below node, in document order;
\* comments and doctypes count for nothing
RECURSIVE text_content(_, _)
text_content(ns, node) ==
    IF ns[node].is_comment \/ ns[node].is_doctype THEN <<>>
    ELSE IF ns[node].tag = None THEN ns[node].text
    ELSE join([i \in 1..Len(ns[node].children) |->
                  text_content(ns, ns[node].children[i])])

\* C10, as claimed: get_text is the concatenation of the Text nodes at or
\* below the node, comments and doctypes left out
C10_TextOnly ==
    \A node \in Reachable(nodes) : get_text(nodes, node) = text_content(nodes, node)

\* the tag a heading after the first one is to get
Level(tag) ==
    IF tag = "h1" THEN "h2"
    ELSE IF tag \in {"h4", "h5", "h6"} THEN "h3"
    ELSE tag

\* the headings whose text content is not blank, in document order
TitledHeadings(ns) ==
    LET titled(h) == strip(text_content(ns, h)) # <<>>
    IN  SelectSeq(iter_tags(ns, Root, HEADING_TAGS), titled)

\* C11, as claimed: normalize_headings makes the first heading with text an
\* h1, gives every later heading with text the tag Level of its tag, leaves
\* the tag of a heading without text, and adds to headings_adjusted the
\* number of headings whose tag changed
C11_HeadingLevels ==
    [][Calls("normalize_headings") =>
          LET titled == TitledHeadings(nodes)
              headings == iter_tags(nodes, Root, HEADING_TAGS)
              changed == {i \in 1..Len(headings) :
                             nodes'[headings[i]].tag # nodes[headings[i]].tag}
          IN  /\ \A i \in 1..Len(titled) :
                     nodes'[titled[i]].tag =
                         IF i = 1 THEN "h1" ELSE Level(nodes[titled[i]].tag)
              /\ \A i \in 1..Len(headings) :
                     strip(text_content(nodes, headings[i])) = <<>> =>
                         nodes'[headings[i]].tag = nodes[headings[i]].tag
              /\ stats'["headings_adjusted"] =
                     stats["headings_adjusted"] + Cardinality(changed)]_vars

\* the elements move_footer_elements is to move: the outermost of those
\* that pass the tests of its first loop, in document order
Candidates(ns) ==
    LET is_candidate(tag) == footer_candidate(ns, tag)
        found == SelectSeq(iter_tags(ns, Root, {}), is_candidate)
        outermost(node) ==
            ~\E k \in 1..Len(found) :
                found[k] # node /\ is_descendant(ns, node, found[k])
    IN  SelectSeq(found, outermost)

Range(seq) == {seq[i] : i \in 1..Len(seq)}

\* seq without the members of S
Without(seq, S) ==
    LET keep(x) == x \notin S
    IN  SelectSeq(seq, keep)

\* C12, as claimed: on a tree with a body, no main and a candidate,
\* move_footer_elements leaves a new main as the only child of the body,
\* with the former children of the body in their order, but for the
\* candidates moved away, and with a footer child; the footer holds what
\* it held, then the candidates in document order, each one taken out of
\* the children of its former parent
C12_Scaffolding ==
    [][(/\ Calls("move_footer_elements")
        /\ Candidates(nodes) # <<>>
        /\ iter_tags(nodes, Root, {"body"}) # <<>>
        /\ iter_tags(nodes, Root, {"main"}) = <<>>) =>
          LET body == iter_tags(nodes, Root, {"body"})[1]
              main == Len(nodes) + 1
              candidates == Candidates(nodes)
              is_footer(child) == nodes[child].tag = "footer"
              footers == SelectSeq(nodes[body].children, is_footer)
              footer == IF footers # <<>> THEN footers[1] ELSE Len(nodes) + 2
          IN  /\ Len(nodes') >= main
              /\ nodes'[main].tag = "main"
              /\ nodes'[body].children = <<main>>
              /\ nodes'[main].parent = body
              /\ nodes'[main].children =
                     Without(nodes[body].children, Range(candidates))
                         \o (IF footers = <<>> THEN <<footer>> ELSE <<>>)
              /\ Len(nodes') >= footer
              /\ nodes'[footer].tag = "footer"
              /\ footer \in Range(nodes'[main].children)
              /\ nodes'[footer].children =
                     (IF footers = <<>> THEN <<>> ELSE nodes[footer].children)
                         \o candidates
              /\ \A i \in 1..Len(candidates) :
                     /\ nodes'[candidates[i]].parent = footer
                     /\ candidates[i] \notin
                            Range(nodes'[nodes[candidates[i]].parent].children)]_vars

\* the nodes of the tree, and the nodes that have no parent
Attached == Reachable(nodes) \cup {node \in 1..Len(nodes) : nodes[node].parent = 0}

\* C13: unwrap of a node of the tree puts the children of the node in its
\* place among the children of its parent, in their order, makes the
\* parent their parent, leaves the node without parent and children, and
\* changes nothing else; unwrap of a node without a parent changes nothing
C13_UnwrapFrame ==
    \A node \in Attached :
        LET after == unwrap(nodes, node)
            parent == nodes[node].parent
            kids == nodes[node].children
        IN  IF parent = 0 THEN after = nodes
            ELSE \E index \in 1..Len(nodes[parent].children) :
                     /\ nodes[parent].children[index] = node
                     /\ after[parent] =
                            [nodes[parent] EXCEPT !.children =
                                SubSeq(@, 1, index - 1) \o kids \o SubSeq(@, index + 1, Len(@))]
                     /\ after[node] = [nodes[node] EXCEPT !.parent = 0, !.children = <<>>]
                     /\ Len(after) = Len(nodes)
                     /\ \A other \in 1..Len(nodes) \ {node, parent} :
                            after[other] =
                                IF other \in Range(kids)
                                THEN [nodes[other] EXCEPT !.parent = parent]
                                ELSE nodes[other]

\* the pass has unwrapped a div that stood after a sibling and had two
\* children: they follow that sibling, in their order
C13_Witness ==
    /\ calls = <<"remove_redundant_wrappers">>
    /\ stats["div_unwrapped"] = 1
    /\ \E div \in 2..Len(nodes) :
           /\ nodes[div].tag = "div"
           /\ nodes[div].parent = 0
           /\ nodes[div].children = <<>>
           /\ Len(nodes) >= div + 2
           /\ nodes[Root].children = <<2, div + 1, div + 2>>

\* C14, as claimed: every node in the tree when move_footer_elements is
\* called is in the tree when it returns
C14_NoContentLost ==
    [][Calls("move_footer_elements") =>
          Reachable(nodes) \subseteq Reachable(nodes')]_vars

\* the stack of the builder: the root at the bottom, above it elements
\* that are not void, each one a child of the entry below it
StackLinked ==
    /\ stack # <<>>
    /\ stack[1] = Root
    /\ \A index \in 2..Len(stack) :
           /\ nodes[stack[index]].tag \notin VOID_ELEMENTS \cup {None}
           /\ nodes[stack[index]].parent = stack[index - 1]
           /\ stack[index] \in Range(nodes[stack[index - 1]].children)

\* C15: while the builder takes events, its stack is StackLinked, and a
\* node it creates becomes the last child of the entry that was on top of
\* the stack
C15_StackInvariant ==
    /\ [](pc = "parse" => StackLinked)
    /\ [][(pc = "parse" /\ Len(nodes') > Len(nodes)) =>
             /\ Len(nodes') = Len(nodes) + 1
             /\ nodes'[Len(nodes')].parent = stack[Len(stack)]
             /\ nodes'[stack[Len(stack)]].children =
                    Append(nodes[stack[Len(stack)]].children, Len(nodes'))
             /\ SubSeq(nodes', 1, Len(nodes)) =
                    [nodes EXCEPT ![stack[Len(stack)]].children = Append(@, Len(nodes'))]]_vars

\* two divs are open, a void element was appended under the inner one and
\* is not on the stack, and a div before them was closed
C15_Witness ==
    /\ pc = "parse"
    /\ Len(stack) = 3
    /\ nodes[stack[3]].children # <<>>
    /\ nodes[Last(nodes[stack[3]].children)].tag \in VOID_ELEMENTS
    /\ \E node \in Range(nodes[Root].children) :
           nodes[node].tag = "div" /\ ~OnStack(node)

====
